---------------------------- MODULE Spec2Model ----------------------------
(***************************************************************************)
(* A model of bevy-solana-client: the JSON-RPC client (the shared trait    *)
(* of bevy-solana-client-common driven by LocalRpcClient, and the          *)
(* standalone RpcClient of src/rpc_client.rs) and the wallet connect       *)
(* bridge of src/wasm_client.rs.                                           *)
(*                                                                         *)
(* Text is a sequence of one-character strings, so that the base58 and     *)
(* base64 codecs are computed, not assumed.  A JSON value is a record      *)
(* [t, v] with t its JSON type.                                            *)
(***************************************************************************)
EXTENDS Integers, Sequences, FiniteSets, TLC

VARIABLES
    call,       \* the last facade call of the RPC client: inputs, request, outcome
    queue,      \* ASYNC_WALLET_EVENT_QUEUE: the Vec<AsyncWalletEvent>
    wallet,     \* Wallet.info: None or Some(WalletInfo)
    events,     \* Events<WalletEvent>: the events still buffered, oldest first
    evCount,    \* Events<WalletEvent>.event_count: events sent so far
    evDropAt,   \* the event count up to which the next Events::update drops
    cursor,     \* each EventReader's last_event_count
    button,     \* the toggle button's WalletButtonType
    interaction,\* the toggle button's Interaction and its Changed flag
    ran,        \* the Update systems that have run in the current frame
    tasks,      \* the connect attempts spawned and not yet completed
    nextId,     \* the number of connect attempts spawned so far
    presses,    \* the number of times the button has been pressed
    history,    \* per attempt: what was pushed, and what the polling step did with it;
                \* cut: the attempts started when the last disconnect was processed
    holders     \* the accessors that hold a guard of the queue's RwLock

vars == <<call, queue, wallet, events, evCount, evDropAt, cursor, button,
          interaction, ran, tasks, nextId, presses, history, holders>>

rpcVars == <<call>>

walletVars == <<queue, wallet, events, evCount, evDropAt, cursor, button,
                interaction, ran, tasks, nextId, presses, history, holders>>

----------------------------------------------------------------------------
(* Text and bytes *)

Rep(c, n) == [i \in 1..n |-> c]

Reverse(s) == [i \in 1..Len(s) |-> s[Len(s) + 1 - i]]

IndexIn(alphabet, c) ==
    IF \E i \in 1..Len(alphabet) : alphabet[i] = c
    THEN (CHOOSE i \in 1..Len(alphabet) : alphabet[i] = c) - 1
    ELSE -1

RECURSIVE LeadingCount(_, _)
LeadingCount(s, c) ==
    IF s = <<>> \/ s[1] # c THEN 0 ELSE 1 + LeadingCount(Tail(s), c)

Bs58Alphabet ==
    <<"1","2","3","4","5","6","7","8","9",
      "A","B","C","D","E","F","G","H","J","K","L","M","N","P","Q","R","S","T","U","V","W","X","Y","Z",
      "a","b","c","d","e","f","g","h","i","j","k","m","n","o","p","q","r","s","t","u","v","w","x","y","z">>

\* val >>= 8 until it is zero, pushing each low byte (little-endian).
RECURSIVE Spill(_, _)
Spill(val, base) ==
    IF val = 0 THEN <<>> ELSE <<val % base>> \o Spill(val \div base, base)

\* One pass of "for byte in output: val += byte * mul; byte = val % base; val /= base".
RECURSIVE MulAdd(_, _, _, _)
MulAdd(digits, val, mul, base) ==
    IF digits = <<>> THEN Spill(val, base)
    ELSE LET t == digits[1] * mul + val
         IN  <<t % base>> \o MulAdd(Tail(digits), t \div base, mul, base)

RECURSIVE Bs58Accumulate(_, _)
Bs58Accumulate(text, out) ==
    IF text = <<>> THEN out
    ELSE Bs58Accumulate(Tail(text), MulAdd(out, IndexIn(Bs58Alphabet, text[1]), 58, 256))

\* bs58::decode(text).into_vec()
Bs58Decode(text) ==
    IF \E i \in 1..Len(text) : IndexIn(Bs58Alphabet, text[i]) < 0
    THEN [ok |-> FALSE, bytes |-> <<>>]
    ELSE [ok |-> TRUE,
          bytes |-> Rep(0, LeadingCount(text, "1")) \o Reverse(Bs58Accumulate(text, <<>>))]

RECURSIVE Bs58Digits(_, _)
Bs58Digits(bytes, out) ==
    IF bytes = <<>> THEN out
    ELSE Bs58Digits(Tail(bytes), MulAdd(out, bytes[1], 256, 58))

\* bs58::encode(bytes).into_string()
Bs58Encode(bytes) ==
    LET digits == Reverse(Bs58Digits(bytes, <<>>))
    IN  Rep("1", LeadingCount(bytes, 0)) \o [i \in 1..Len(digits) |-> Bs58Alphabet[digits[i] + 1]]

Base64Alphabet ==
    <<"A","B","C","D","E","F","G","H","I","J","K","L","M","N","O","P","Q","R","S","T","U","V","W","X","Y","Z",
      "a","b","c","d","e","f","g","h","i","j","k","l","m","n","o","p","q","r","s","t","u","v","w","x","y","z",
      "0","1","2","3","4","5","6","7","8","9","+","/">>

\* The bytes of one group of 2, 3 or 4 symbols.
Base64Group(g) ==
    LET val(i) == IF i <= Len(g) THEN IndexIn(Base64Alphabet, g[i]) ELSE 0
        n == val(1) * 262144 + val(2) * 4096 + val(3) * 64 + val(4)
    IN  SubSeq(<<n \div 65536, (n \div 256) % 256, n % 256>>, 1, Len(g) - 1)

RECURSIVE Base64Groups(_)
Base64Groups(text) ==
    IF text = <<>> THEN <<>>
    ELSE Base64Group(SubSeq(text, 1, IF Len(text) < 4 THEN Len(text) ELSE 4))
             \o Base64Groups(SubSeq(text, 5, Len(text)))

\* BASE64_STANDARD.decode(text): canonical padding, no trailing bits.
Base64Decode(text) ==
    LET pad == LeadingCount(Reverse(text), "=")
        body == SubSeq(text, 1, Len(text) - pad)
        last == IF body = <<>> THEN 0 ELSE IndexIn(Base64Alphabet, body[Len(body)])
        wellFormed ==
            /\ Len(text) % 4 = 0
            /\ pad <= 2
            /\ \A i \in 1..Len(body) : IndexIn(Base64Alphabet, body[i]) >= 0
            /\ pad = 1 => last % 4 = 0
            /\ pad = 2 => last % 16 = 0
    IN  IF wellFormed THEN [ok |-> TRUE, bytes |-> Base64Groups(body)]
        ELSE [ok |-> FALSE, bytes |-> <<>>]

----------------------------------------------------------------------------
(* JSON values (serde_json::Value) and the typed decoders serde derives *)

JNull == [t |-> "null", v |-> 0]
JBool(b) == [t |-> "bool", v |-> b]
JNum(n) == [t |-> "num", v |-> n]
JStr(s) == [t |-> "str", v |-> s]
JArr(a) == [t |-> "arr", v |-> a]
JObj(o) == [t |-> "obj", v |-> o]
\* A body that is not JSON text at all.
NotJson == [t |-> "garbage", v |-> 0]
\* A key the object does not hold.
Absent == [t |-> "absent", v |-> 0]

None == [some |-> FALSE, v |-> 0]
Some(x) == [some |-> TRUE, v |-> x]

\* The printable characters, from the space (32) to the tilde (126); the
\* quote, the backslash and the backtick are named, as no text here holds
\* them.
AsciiPrintable ==
    <<" ", "!", "quote", "#", "$", "%", "&", "'", "(", ")", "*", "+", ",", "-", ".", "/",
      "0", "1", "2", "3", "4", "5", "6", "7", "8", "9", ":", ";", "<", "=", ">", "?",
      "@", "A", "B", "C", "D", "E", "F", "G", "H", "I", "J", "K", "L", "M", "N", "O",
      "P", "Q", "R", "S", "T", "U", "V", "W", "X", "Y", "Z", "[", "backslash", "]", "^", "_",
      "backtick", "a", "b", "c", "d", "e", "f", "g", "h", "i", "j", "k", "l", "m", "n", "o",
      "p", "q", "r", "s", "t", "u", "v", "w", "x", "y", "z", "{", "|", "}", "~">>

\* The bytes of a text
AsBytes(text) == [i \in 1..Len(text) |-> 32 + IndexIn(AsciiPrintable, text[i])]

DeOk(x) == [ok |-> TRUE, v |-> x]
DeFail == [ok |-> FALSE, v |-> 0]

IsOption(T) == T \in {"Option<RpcAccountInfo>", "Option<Value>",
                      "Option<String>", "Option<RpcResult<u64>>",
                      "Option<RpcResult<Option<RpcAccountInfo>>>",
                      "Option<RpcResult<GetLatestBlockhash>>",
                      "Option<Vec<(Account, Pubkey)>>"}

\* T of Option<T>, RpcResult<T>, Vec<T>.
Inner(T) ==
    CASE T = "Option<RpcAccountInfo>" -> "RpcAccountInfo"
      [] T = "Option<Value>" -> "Value"
      [] T = "Option<String>" -> "String"
      [] T = "Option<RpcResult<u64>>" -> "RpcResult<u64>"
      [] T = "Option<RpcResult<Option<RpcAccountInfo>>>" -> "RpcResult<Option<RpcAccountInfo>>"
      [] T = "Option<RpcResult<GetLatestBlockhash>>" -> "RpcResult<GetLatestBlockhash>"
      [] T = "Option<Vec<(Account, Pubkey)>>" -> "Vec<(Account, Pubkey)>"
      [] T = "RpcResult<u64>" -> "u64"
      [] T = "RpcResult<Option<RpcAccountInfo>>" -> "Option<RpcAccountInfo>"
      [] T = "RpcResult<GetLatestBlockhash>" -> "GetLatestBlockhash"
      [] T = "Vec<(Account, Pubkey)>" -> "(Account, Pubkey)"
      [] T = "Vec<u8>" -> "u8"
      [] T = "[u8; 32]" -> "u8"
      [] OTHER -> "Value"

\* The fields of a derived struct, in declaration order, with their types.
StructOf(T) ==
    CASE T \in {"RpcResult<u64>", "RpcResult<Option<RpcAccountInfo>>",
                "RpcResult<GetLatestBlockhash>"} ->
            <<[name |-> "value", type |-> Inner(T)]>>
      [] T = "GetLatestBlockhash" ->
            <<[name |-> "blockhash", type |-> "String"],
              [name |-> "lastValidBlockHeight", type |-> "u64"]>>
      [] T = "RpcAccountInfo" ->
            <<[name |-> "data", type |-> "[String; 2]"],
              [name |-> "executable", type |-> "bool"],
              [name |-> "lamports", type |-> "u64"],
              [name |-> "owner", type |-> "String"],
              [name |-> "rentEpoch", type |-> "u64"]>>
      [] T = "Account" ->
            <<[name |-> "lamports", type |-> "u64"],
              [name |-> "data", type |-> "Vec<u8>"],
              [name |-> "owner", type |-> "Pubkey"],
              [name |-> "executable", type |-> "bool"],
              [name |-> "rentEpoch", type |-> "u64"]>>
      [] OTHER -> <<>>

\* The element types of a tuple or fixed array read from a JSON array.
TupleOf(T) ==
    CASE T = "[String; 2]" -> <<"String", "String">>
      [] T = "(Account, Pubkey)" -> <<"Account", "Pubkey">>
      [] T = "[u8; 32]" -> Rep("u8", 32)
      [] OTHER -> <<>>

\* The JSON value a struct's deserializer sees for field i: by key in an
\* object, by position in an array.
FieldValue(j, fields, i) ==
    IF j.t = "obj"
    THEN IF fields[i].name \in DOMAIN j.v THEN j.v[fields[i].name] ELSE Absent
    ELSE j.v[i]

RECURSIVE De(_, _)

\* Option<T> of a value that is not null
DeSome(x) == IF x.ok THEN DeOk(Some(x.v)) ELSE DeFail

\* One field of a derived struct: a missing key reads as None for an Option
\* field and is an error otherwise.
DeField(type, f) ==
    IF f.t = "absent" THEN (IF IsOption(type) THEN DeOk(None) ELSE DeFail)
    ELSE De(type, f)

\* A derived struct reads a JSON object by key (unknown keys ignored) or a
\* JSON array by position (every field present, nothing after the last).
DeStruct(fields, j) ==
    IF /\ j.t \in {"obj", "arr"}
       /\ j.t = "arr" => Len(j.v) = Len(fields)
       /\ \A i \in 1..Len(fields) : DeField(fields[i].type, FieldValue(j, fields, i)).ok
    THEN DeOk([i \in 1..Len(fields) |->
                  DeField(fields[i].type, FieldValue(j, fields, i)).v])
    ELSE DeFail

\* A tuple or a fixed array: a JSON array of exactly that many elements.
DeTuple(types, j) ==
    IF /\ j.t = "arr"
       /\ Len(j.v) = Len(types)
       /\ \A i \in 1..Len(types) : De(types[i], j.v[i]).ok
    THEN DeOk([i \in 1..Len(types) |-> De(types[i], j.v[i]).v])
    ELSE DeFail

\* Vec<T>: a JSON array of any length.
DeVec(type, j) ==
    IF j.t = "arr" /\ \A i \in 1..Len(j.v) : De(type, j.v[i]).ok
    THEN DeOk([i \in 1..Len(j.v) |-> De(type, j.v[i]).v])
    ELSE DeFail

De(T, j) ==
    CASE T = "Value" -> DeOk(j)
      [] T = "String" -> IF j.t = "str" THEN DeOk(j.v) ELSE DeFail
      [] T = "bool" -> IF j.t = "bool" THEN DeOk(j.v) ELSE DeFail
      [] T = "u64" -> IF j.t = "num" /\ j.v >= 0 THEN DeOk(j.v) ELSE DeFail
      [] T = "u8" -> IF j.t = "num" /\ j.v >= 0 /\ j.v <= 255 THEN DeOk(j.v) ELSE DeFail
      [] IsOption(T) -> IF j.t = "null" THEN DeOk(None) ELSE DeSome(De(Inner(T), j))
      [] StructOf(T) # <<>> -> DeStruct(StructOf(T), j)
      [] TupleOf(T) # <<>> -> DeTuple(TupleOf(T), j)
      [] T = "Pubkey" -> DeTuple(TupleOf("[u8; 32]"), j)
      [] T = "Vec<(Account, Pubkey)>" -> DeVec(Inner(T), j)
      [] T = "Vec<u8>" ->    \* serde_bytes: a string gives its bytes
            IF j.t = "str" THEN DeOk(AsBytes(j.v)) ELSE DeVec(Inner(T), j)
      [] OTHER -> DeFail

\* struct RpcResponse<T> { jsonrpc: String, result: Option<T>, error: Option<Value>, id: u64 }
RpcResponse(T) ==
    <<[name |-> "jsonrpc", type |-> "String"],
      [name |-> "result", type |-> IF T = "String" THEN "Option<String>"
                                   ELSE IF T = "RpcResult<u64>" THEN "Option<RpcResult<u64>>"
                                   ELSE IF T = "RpcResult<Option<RpcAccountInfo>>"
                                        THEN "Option<RpcResult<Option<RpcAccountInfo>>>"
                                   ELSE IF T = "RpcResult<GetLatestBlockhash>"
                                        THEN "Option<RpcResult<GetLatestBlockhash>>"
                                   ELSE "Option<Vec<(Account, Pubkey)>>"],
      [name |-> "error", type |-> "Option<Value>"],
      [name |-> "id", type |-> "u64"]>>

\* The struct RpcResponse<T> of the fields read.
RpcResponseOf(r) ==
    IF r.ok
    THEN DeOk([jsonrpc |-> r.v[1], result |-> r.v[2], error |-> r.v[3], id |-> r.v[4]])
    ELSE DeFail

\* serde_json::from_str::<RpcResponse<T>>(body)
from_str(T, body) ==
    IF body.t = "garbage" THEN DeFail ELSE RpcResponseOf(DeStruct(RpcResponse(T), body))

----------------------------------------------------------------------------
(* Results: anyhow::Result<T>, and a panic that unwinds out of the call *)

Ok(x) == [kind |-> "Ok", val |-> x, cause |-> "", detail |-> JNull, ctx |-> <<>>]

\* An anyhow::Error: its root cause, what the cause carries, and the
\* contexts wrapped around it, outermost first.
Err(cause, detail) ==
    [kind |-> "Err", val |-> 0, cause |-> cause, detail |-> detail, ctx |-> <<>>]

Panic(cause) ==
    [kind |-> "Panic", val |-> 0, cause |-> cause, detail |-> JNull, ctx |-> <<>>]

\* Result::context(msg)
Context(r, msg) == IF r.kind = "Err" THEN [r EXCEPT !.ctx = <<msg>> \o @] ELSE r

\* What the transport gave back: an error of send() or text(), or the body.
TransportError == [t |-> "error", body |-> NotJson]
Body(j) == [t |-> "text", body |-> j]

\* "2.0"
Str20 == <<"2", ".", "0">>

\* RpcRequest::new(method, params)
RpcRequest_new(method, params) ==
    [jsonrpc |-> JStr(Str20), method |-> method, id |-> 1, params |-> params]

\* serde_json's error for a body: not JSON, or JSON of another shape.
JsonError(body) == Err(IF body.t = "garbage" THEN "json syntax" ELSE "json data", JNull)

\* A reading of the response that looks at the result before the error.
rpc_post_checks_result_first(resp, body) ==
    IF ~resp.ok THEN JsonError(body)
    ELSE IF resp.v.result.some THEN Ok(resp.v.result.v)
    ELSE IF resp.v.error.some THEN Err("rpc error", resp.v.error.v)
    ELSE Err("no result", JNull)

\* A reading of the response that reports a missing result as an rpc error.
rpc_post_checks_one_failure(resp, body) ==
    IF ~resp.ok THEN JsonError(body)
    ELSE IF resp.v.error.some \/ ~resp.v.result.some THEN Err("rpc error", resp.v.error.v)
    ELSE Ok(resp.v.result.v)

\* RpcClient::rpc_post of src/rpc_client.rs, from the parsed response on
RpcClient_rpc_post_checks(resp, body) ==
    IF ~resp.ok THEN JsonError(body)
    ELSE IF resp.v.error.some THEN Err("rpc error", resp.v.error.v)
    ELSE IF ~resp.v.result.some THEN Err("no result", JNull)
    ELSE Ok(resp.v.result.v)

\* RpcClient::rpc_post of src/rpc_client.rs
RpcClient_rpc_post(T, reply) ==
    IF reply.t = "error" THEN Err("transport", JNull)
    ELSE RpcClient_rpc_post_checks(from_str(T, reply.body), reply.body)

\* LocalRpcClient::rpc_post, from the parsed response on
LocalRpcClient_rpc_post_checks(resp, body) ==
    IF ~resp.ok THEN JsonError(body)
    ELSE IF resp.v.error.some THEN Err("rpc error", resp.v.error.v)
    ELSE IF ~resp.v.result.some THEN Err("no result", JNull)
    ELSE Ok(resp.v.result.v)

\* LocalRpcClient::rpc_post
LocalRpcClient_rpc_post(T, reply) ==
    IF reply.t = "error" THEN Err("transport", JNull)
    ELSE LocalRpcClient_rpc_post_checks(from_str(T, reply.body), reply.body)

Impls == {"local", "standalone"}

rpc_post(impl, T, reply) ==
    IF impl = "local" THEN LocalRpcClient_rpc_post(T, reply) ELSE RpcClient_rpc_post(T, reply)

\* rpc_post_expect_str
rpc_post_expect_str(impl, reply) == rpc_post(impl, "String", reply)

\* .map(|r| r.value)
map_value(r) == IF r.kind = "Ok" THEN Ok(r.val[1]) ELSE r

\* rpc_post_expect_result
rpc_post_expect_result(impl, T, reply) == map_value(rpc_post(impl, T, reply))

----------------------------------------------------------------------------
(* The facade operations: the parameters each posts, and its outcome once  *)
(* the transport has replied.                                              *)

TextBase64 == <<"b", "a", "s", "e", "6", "4">>
TextFinalized == <<"f", "i", "n", "a", "l", "i", "z", "e", "d">>

PubkeyBytes == 32
MaxBase58Len == 44

\* Pubkey::to_string
Pubkey_to_string(pubkey) == Bs58Encode(pubkey)

\* The 32 bytes of a decoded address text
PubkeyOf(decoded) ==
    IF decoded.ok /\ Len(decoded.bytes) = PubkeyBytes THEN decoded
    ELSE [ok |-> FALSE, bytes |-> <<>>]

\* Pubkey::from_str
Pubkey_from_str(text) ==
    IF Len(text) > MaxBase58Len THEN [ok |-> FALSE, bytes |-> <<>>]
    ELSE PubkeyOf(Bs58Decode(text))

\* The Account of a wire record whose data and owner have been decoded.
Account_of(rpc_acc, data, owner) ==
    IF ~data.ok THEN Panic("base64 decode")
    ELSE IF ~owner.ok THEN Panic("pubkey parse")
    ELSE Ok([data |-> data.bytes, owner |-> owner.bytes, lamports |-> rpc_acc[3],
             rent_epoch |-> rpc_acc[5], executable |-> rpc_acc[2]])

\* impl From<RpcAccountInfo> for Account: both decodes are unwrapped.
Account_from(rpc_acc) ==
    Account_of(rpc_acc, Base64Decode(rpc_acc[1][1]), Pubkey_from_str(rpc_acc[4]))

\* json![pubkey.to_string()]: the macro's brackets are its delimiters, so
\* the value is the string itself.
get_balance_params(pubkey) == JStr(Pubkey_to_string(pubkey))

get_balance(impl, pubkey, reply) == rpc_post_expect_result(impl, "RpcResult<u64>", reply)

\* json!([pubkey.to_string(), {"encoding": "base64"}])
get_account_params(pubkey) ==
    JArr(<<JStr(Pubkey_to_string(pubkey)), JObj([encoding |-> JStr(TextBase64)])>>)

\* A get_account that reports a missing account as a missing result.
get_account_outcome_no_result(opt_acc_val) ==
    IF opt_acc_val.kind # "Ok" THEN opt_acc_val
    ELSE IF ~opt_acc_val.val.some THEN Err("no result", JNull)
    ELSE Account_from(opt_acc_val.val.v)

\* Ok(opt_acc_val.context("could not find account")?.into())
get_account_outcome(opt_acc_val) ==
    IF opt_acc_val.kind # "Ok" THEN opt_acc_val
    ELSE IF ~opt_acc_val.val.some THEN Err("could not find account", JNull)
    ELSE Account_from(opt_acc_val.val.v)

get_account(impl, pubkey, reply) ==
    get_account_outcome(
        rpc_post_expect_result(impl, "RpcResult<Option<RpcAccountInfo>>", reply))

\* json!([tx]), tx the base58 text of the serialized transaction
send_transaction_params(tx_bytes) == JArr(<<JStr(Bs58Encode(tx_bytes))>>)

\* What send_transaction returns once the post has succeeded, given the
\* base58 text tx it posted and the identifier resp the node echoed.
send_transaction_returns(tx, resp) == IF resp.kind = "Ok" THEN Ok(tx) ELSE resp

send_transaction(impl, tx_bytes, reply) ==
    send_transaction_returns(
        Bs58Encode(tx_bytes),
        Context(rpc_post_expect_str(impl, reply), "could not send transaction"))

HashBytes == 32

\* json!([{"commitment": "finalized"}])
get_latest_blockhash_params == JArr(<<JObj([commitment |-> JStr(TextFinalized)])>>)

\* A conversion that fits whatever was decoded into 32 bytes.
hash_bytes_resized(decoded) ==
    IF ~decoded.ok THEN Context(Err("bs58 decode", JNull), "could not decode blockhash")
    ELSE Ok(SubSeq(decoded.bytes \o Rep(0, HashBytes), 1, HashBytes))

\* try_into::<[u8; 32]>() of the decoded bytes, after the decode's context
hash_bytes(decoded) ==
    IF ~decoded.ok THEN Context(Err("bs58 decode", JNull), "could not decode blockhash")
    ELSE IF Len(decoded.bytes) # HashBytes THEN Err("try_into", JNull)
    ELSE Ok(decoded.bytes)

\* The tail of get_latest_blockhash, from the decoded response on
decode_blockhash(resp) ==
    IF resp.kind # "Ok" THEN resp ELSE hash_bytes(Bs58Decode(resp.val[1]))

get_latest_blockhash(impl, reply) ==
    decode_blockhash(rpc_post_expect_result(impl, "RpcResult<GetLatestBlockhash>", reply))

\* The keypairs sign_tx may be handed: the one the transaction names as its
\* signer, and one it does not name.
Keypairs == {"signer", "stranger"}

\* Transaction::sign(&[kp], recent_blockhash): the message takes the blockhash
\* and is signed; it panics when kp is not the signer the message names.
Transaction_sign(tx, kp, recent_blockhash) ==
    IF kp = "signer"
    THEN Ok([message |-> tx, recent_blockhash |-> recent_blockhash, signed_by |-> kp])
    ELSE Panic("Transaction::sign")

\* A sign_tx that signs with the blockhash the transaction came with.
sign_tx_with_unfetched(tx, kp, hash) == Transaction_sign(tx, kp, Rep(0, HashBytes))

\* tx.sign(&[kp], self.get_latest_blockhash().await?); Ok(tx)
sign_tx_with(tx, kp, hash) ==
    IF hash.kind # "Ok" THEN hash ELSE Transaction_sign(tx, kp, hash.val)

sign_tx(impl, tx, kp, reply) == sign_tx_with(tx, kp, get_latest_blockhash(impl, reply))

\* json!([program_id.to_string(), {"encoding": "base64"}])
get_program_accounts_params(program_id) ==
    JArr(<<JStr(Pubkey_to_string(program_id)), JObj([encoding |-> JStr(TextBase64)])>>)

\* resp.into_iter().map(|(acc, pk)| (acc.into(), pk)).collect() of
\* src/rpc_client.rs, where acc.into() is From<Account> for Account
into_pairs(resp) ==
    IF resp.kind # "Ok" THEN resp
    ELSE Ok([i \in 1..Len(resp.val) |-> <<resp.val[i][1], resp.val[i][2]>>])

\* The trait's get_program_accounts collects the pairs as they are; the one
\* of src/rpc_client.rs converts each account first.
get_program_accounts(impl, program_id, reply) ==
    IF impl = "standalone"
    THEN into_pairs(rpc_post(impl, "Vec<(Account, Pubkey)>", reply))
    ELSE rpc_post(impl, "Vec<(Account, Pubkey)>", reply)

\* The type each operation has rpc_post decode the result as.
ResultType(op) ==
    CASE op = "get_balance" -> "RpcResult<u64>"
      [] op = "get_account" -> "RpcResult<Option<RpcAccountInfo>>"
      [] op = "send_transaction" -> "String"
      [] op \in {"get_latest_blockhash", "sign_tx"} -> "RpcResult<GetLatestBlockhash>"
      [] op = "get_program_accounts" -> "Vec<(Account, Pubkey)>"

----------------------------------------------------------------------------
(* The inputs the RPC client is driven with *)

\* "vines1vzrYbzLMRdu58ou5XTby4qAqVRLmqo36NKPTg", the address of the tests
VinesText ==
    <<"v","i","n","e","s","1","v","z","r","Y","b","z","L","M","R","d","u","5","8","o","u","5",
      "X","T","b","y","4","q","A","q","V","R","L","m","q","o","3","6","N","K","P","T","g">>

\* The system program, whose text is thirty-two "1".
SystemProgram == Rep(0, PubkeyBytes)

Pubkeys == {SystemProgram, Bs58Decode(VinesText).bytes}

\* bincode::serialize(tx) of the transactions submitted
TxBytes == {<<1, 2, 3>>, <<0, 0, 255>>}

\* The identifier a node echoes: "5j7s", and one that is the base58 text of <<1, 2, 3>>.
EchoedIds == {<<"5", "j", "7", "s">>, <<"L", "d", "p">>}

DataTexts ==
    {<<"a", "G", "k", "=">>,        \* "hi"
     <<>>,                          \* no data
     <<"a", "G", "k">>,             \* cut short
     <<"a", "!", "k", "=">>}        \* not base64

OwnerTexts ==
    {Rep("1", 32),                  \* the system program
     VinesText,
     Rep("1", 31),                  \* 31 bytes
     <<"0", "O", "I", "l">>}        \* not base58

\* An account as getAccountInfo sends it.
WireAccount(data, owner) ==
    JObj([data |-> JArr(<<JStr(data), JStr(TextBase64)>>),
          executable |-> JBool(FALSE),
          lamports |-> JNum(1000),
          owner |-> JStr(owner),
          rentEpoch |-> JNum(361),
          space |-> JNum(Len(data))])

WireAccounts == {WireAccount(d, o) : d \in DataTexts, o \in OwnerTexts}

\* An account in the shape solana_sdk's own Deserialize of Account reads.
SdkAccount ==
    JObj([lamports |-> JNum(1000), data |-> JArr(<<JNum(104), JNum(105)>>),
          owner |-> JArr(Rep(JNum(0), 32)), executable |-> JBool(FALSE),
          rentEpoch |-> JNum(361)])

\* The same with the data as a string, which serde_bytes reads as its bytes.
SdkAccountText ==
    JObj([lamports |-> JNum(1000), data |-> JStr(<<"h", "i">>),
          owner |-> JArr(Rep(JNum(0), 32)), executable |-> JBool(FALSE),
          rentEpoch |-> JNum(361)])

BlockhashTexts == {Rep("1", 32), VinesText, Rep("1", 31), Rep("1", 33), <<"0">>}

ResultPayloads ==
    {JStr(id) : id \in EchoedIds}
    \cup {JNum(1500000),
          JObj([value |-> JNum(1500000)]),
          JObj([value |-> JNum(-1)]),
          JObj([value |-> JNull]),
          JObj([context |-> JObj([slot |-> JNum(1)])]),
          JArr(<<JNum(1500000)>>),
          JArr(<<>>),
          JArr(<<JArr(<<SdkAccount, JArr(Rep(JNum(0), 32))>>)>>),
          JArr(<<JArr(<<SdkAccount, JArr(Rep(JNum(0), 32))>>),
                 JArr(<<SdkAccountText, JArr(Rep(JNum(255), 32))>>)>>),
          JArr(<<JObj([account |-> WireAccount(<<"a", "G", "k", "=">>, Rep("1", 32)),
                       pubkey |-> JStr(VinesText)])>>)}
    \cup {JObj([value |-> a]) : a \in WireAccounts}
    \cup {JObj([value |-> JObj([blockhash |-> JStr(b), lastValidBlockHeight |-> JNum(100)])]) :
             b \in BlockhashTexts}

ErrorPayloads ==
    {JObj([code |-> JNum(-32002), message |-> JStr(<<"n", "o">>)]), JBool(FALSE)}

\* A response object holding the members that are not Absent.
Envelope(jsonrpc, id, result, error) ==
    LET all == [jsonrpc |-> jsonrpc, id |-> id, result |-> result, error |-> error]
    IN  JObj([k \in {m \in DOMAIN all : all[m].t # "absent"} |-> all[k]])

\* The version and id members: as a node sends them, and malformed.
EnvelopeHeads ==
    {<<JStr(Str20), JNum(1)>>, <<Absent, JNum(1)>>, <<JStr(Str20), Absent>>,
     <<JStr(Str20), JNum(-1)>>, <<JNum(2), JNum(1)>>}

Bodies ==
    {Envelope(h[1], h[2], r, e) :
        h \in EnvelopeHeads,
        r \in ResultPayloads \cup {JNull, Absent},
        e \in ErrorPayloads \cup {JNull, Absent}}
    \cup {NotJson, JNum(7), JArr(<<JStr(Str20), JStr(<<"5", "j", "7", "s">>), JNull, JNum(1)>>)}

Replies == {TransportError} \cup {Body(b) : b \in Bodies}

----------------------------------------------------------------------------
(* The wallet connect bridge of src/wasm_client.rs *)

\* The button presses a run may hold.
MaxPresses == 2

\* The times the button is pressed in a session that connects, disconnects
\* and goes on.
MaxSessionPresses == 3

\* The addresses the host wallet may resolve a connect with.
Addresses == {"Addr123", "AddrXYZ"}

\* Result<String> of connect_to_phantom
ConnectResults == {[ok |-> TRUE, address |-> a] : a \in Addresses}
                      \cup {[ok |-> FALSE, address |-> ""]}

\* The systems WasmClient::build adds to Update
Systems == {"wallet_menu_interaction_system", "wallet_event_system",
            "wallet_menu_system", "async_wallet_event_system"}

Interactions == {"None", "Hovered", "Pressed"}

\* Wallet { info: None }, and Wallet { info: Some(WalletInfo) }
NoWalletInfo == [some |-> FALSE, v |-> [amount |-> 0, address |-> ""]]

WalletInfo(address) == [some |-> TRUE, v |-> [amount |-> 0, address |-> address]]

\* No facade call made yet.
NoCall == [stage |-> "idle", impl |-> "", op |-> "none", arg |-> <<>>, reply |-> TransportError,
           request |-> RpcRequest_new("", JNull), sent |-> <<>>, post |-> Err("", JNull),
           outcome |-> Err("", JNull)]

Init ==
    /\ call = NoCall
    /\ queue = <<>>
    /\ wallet = NoWalletInfo
    /\ events = <<>>
    /\ evCount = 0
    /\ evDropAt = 0
    /\ cursor = [s \in {"wallet_event_system", "wallet_menu_system"} |-> 0]
    /\ button = "Connect"
    /\ interaction = [state |-> "None", changed |-> TRUE]
    /\ ran = Systems
    /\ tasks = {}
    /\ nextId = 0
    /\ presses = 0
    /\ history = [pushed |-> <<>>, consumed |-> <<>>, cut |-> -1]
    /\ holders = {}

----------------------------------------------------------------------------
(* The RPC client's operations.  An operation posts its request and is   *)
(* suspended at the transport; the transport's reply completes it.         *)

\* The request envelope operation op posts for arg.
Request(op, arg) ==
    CASE op = "get_balance" -> RpcRequest_new("getBalance", get_balance_params(arg))
      [] op = "get_account" -> RpcRequest_new("getAccountInfo", get_account_params(arg))
      [] op = "send_transaction" ->
            RpcRequest_new("sendTransaction", send_transaction_params(arg))
      [] op \in {"get_latest_blockhash", "sign_tx"} ->
            RpcRequest_new("getLatestBlockhash", get_latest_blockhash_params)
      [] op = "get_program_accounts" ->
            RpcRequest_new("getProgramAccounts", get_program_accounts_params(arg))

\* The operation op of client impl on arg, completed by reply.
Facade(impl, op, arg, reply) ==
    CASE op = "get_balance" -> get_balance(impl, arg, reply)
      [] op = "get_account" -> get_account(impl, arg, reply)
      [] op = "send_transaction" -> send_transaction(impl, arg, reply)
      [] op = "get_latest_blockhash" -> get_latest_blockhash(impl, reply)
      [] op = "sign_tx" -> sign_tx(impl, arg.tx, arg.kp, reply)
      [] op = "get_program_accounts" -> get_program_accounts(impl, arg, reply)

\* The request is built and sent: sent holds what went to the transport.
Posted(impl, op, arg) ==
    [stage |-> "posted", impl |-> impl, op |-> op, arg |-> arg, reply |-> TransportError,
     request |-> Request(op, arg), sent |-> <<Request(op, arg)>>,
     post |-> Err("", JNull), outcome |-> Err("", JNull)]

\* An end of the call that posts the request once more when it has failed.
Returned_or_retried(c, reply) ==
    IF Facade(c.impl, c.op, c.arg, reply).kind # "Ok" /\ Len(c.sent) < 2
    THEN [c EXCEPT !.sent = Append(@, c.request)]
    ELSE [c EXCEPT !.stage = "done", !.reply = reply,
                   !.post = rpc_post(c.impl, ResultType(c.op), reply),
                   !.outcome = Facade(c.impl, c.op, c.arg, reply)]

\* rpc_post reads the reply and the operation returns: no further request.
Returned(c, reply) ==
    [c EXCEPT !.stage = "done", !.reply = reply,
              !.post = rpc_post(c.impl, ResultType(c.op), reply),
              !.outcome = Facade(c.impl, c.op, c.arg, reply)]

\* The client holds no state but its url, so a run follows one call of one
\* client from its start to its end.
Idle == call.stage = "idle"

GetBalance ==
    /\ Idle
    /\ \E impl \in Impls, pubkey \in Pubkeys : call' = Posted(impl, "get_balance", pubkey)
    /\ UNCHANGED walletVars

GetAccount ==
    /\ Idle
    /\ \E impl \in Impls, pubkey \in Pubkeys : call' = Posted(impl, "get_account", pubkey)
    /\ UNCHANGED walletVars

SendTransaction ==
    /\ Idle
    /\ \E impl \in Impls, tx \in TxBytes : call' = Posted(impl, "send_transaction", tx)
    /\ UNCHANGED walletVars

GetLatestBlockhash ==
    /\ Idle
    /\ \E impl \in Impls : call' = Posted(impl, "get_latest_blockhash", <<>>)
    /\ UNCHANGED walletVars

SignTx ==
    /\ Idle
    /\ \E impl \in Impls, tx \in TxBytes, kp \in Keypairs :
          call' = Posted(impl, "sign_tx", [tx |-> tx, kp |-> kp])
    /\ UNCHANGED walletVars

GetProgramAccounts ==
    /\ Idle
    /\ \E impl \in Impls, program_id \in Pubkeys :
          call' = Posted(impl, "get_program_accounts", program_id)
    /\ UNCHANGED walletVars

\* The transport answers the request posted, and the operation runs to its end.
TransportReplies ==
    /\ call.stage = "posted"
    /\ \E reply \in Replies : call' = Returned(call, reply)
    /\ UNCHANGED walletVars

RpcNext ==
    \/ GetBalance
    \/ GetAccount
    \/ SendTransaction
    \/ GetLatestBlockhash
    \/ SignTx
    \/ GetProgramAccounts
    \/ TransportReplies

RpcSpec == Init /\ [][RpcNext]_vars

----------------------------------------------------------------------------
(* The bridge's queue, events and systems *)

\* A lock that grants a guard whoever holds one, as a read lock would.
get_rw_lock_shared(held, who) == [granted |-> TRUE, holders |-> held \cup {who}]

\* AsyncWalletEventQueue::get_rw_lock: RwLock::write grants its guard when
\* nobody holds one, and has the caller wait otherwise.
get_rw_lock(held, who) == [granted |-> held = {}, holders |-> held \cup {who}]

\* AsyncWalletEventQueue::push
AsyncWalletEventQueue_push(q, event) == Append(q, event)

\* AsyncWalletEventQueue::clear
AsyncWalletEventQueue_clear(q) == <<>>

\* A pop that takes the last element and clears the queue.
AsyncWalletEventQueue_pop_clear(q) ==
    IF q = <<>> THEN [event |-> None, queue |-> q]
    ELSE [event |-> Some(q[Len(q)]), queue |-> <<>>]

\* A pop that hands out the last element and leaves it queued.
AsyncWalletEventQueue_pop_peek(q) ==
    IF q = <<>> THEN [event |-> None, queue |-> q]
    ELSE [event |-> Some(q[Len(q)]), queue |-> q]

\* A pop that hands out the last element and drops the one before it too.
AsyncWalletEventQueue_pop_two(q) ==
    IF q = <<>> THEN [event |-> None, queue |-> q]
    ELSE [event |-> Some(q[Len(q)]), queue |-> SubSeq(q, 1, Len(q) - 2)]

\* AsyncWalletEventQueue::pop: Vec::pop takes the last element.
AsyncWalletEventQueue_pop(q) ==
    IF q = <<>> THEN [event |-> None, queue |-> q]
    ELSE [event |-> Some(q[Len(q)]), queue |-> SubSeq(q, 1, Len(q) - 1)]

\* EventWriter::send on the events evs, count of them sent so far
EventsSend(evs, count, kind) == Append(evs, [id |-> count, kind |-> kind])

\* EventReader::iter: the buffered events the reader has not seen.
Unread(system) == SelectSeq(events, LAMBDA e : e.id >= cursor[system])

Started(system) ==
    /\ ran # Systems
    /\ system \notin ran
    /\ ran' = ran \cup {system}

\* One frame begins: Events::update_system (First) swaps the buffers, and
\* the UI focus system (PreUpdate) may change the button's Interaction.
Frame(limit) ==
    /\ ran = Systems
    /\ ran' = {}
    /\ events' = SelectSeq(events, LAMBDA e : e.id >= evDropAt)
    /\ evDropAt' = evCount
    /\ \E i \in Interactions :
          IF i = interaction.state
          THEN UNCHANGED <<interaction, presses>>
          ELSE /\ interaction' = [state |-> i, changed |-> TRUE]
               /\ IF i = "Pressed"
                  THEN presses < limit /\ presses' = presses + 1
                  ELSE UNCHANGED presses
    /\ UNCHANGED <<call, holders, queue, wallet, evCount, cursor, button, tasks, nextId, history>>

BeginFrame == Frame(MaxPresses)

wallet_menu_interaction_system ==
    /\ Started("wallet_menu_interaction_system")
    /\ IF interaction.changed /\ interaction.state = "Pressed"
       THEN /\ events' = EventsSend(events, evCount,
                            IF button = "Connect" THEN "ConnectBtnClick"
                            ELSE "DisconnectBtnClick")
            /\ evCount' = evCount + 1
       ELSE UNCHANGED <<events, evCount>>
    /\ interaction' = [interaction EXCEPT !.changed = FALSE]
    /\ UNCHANGED <<call, holders, queue, wallet, evDropAt, cursor, button, tasks, nextId,
                   presses, history>>

\* Every ConnectBtnClick read spawns one connect task.
wallet_event_system ==
    LET clicks == Len(SelectSeq(Unread("wallet_event_system"),
                                LAMBDA e : e.kind = "ConnectBtnClick"))
    IN  /\ Started("wallet_event_system")
        /\ tasks' = tasks \cup (nextId .. nextId + clicks - 1)
        /\ nextId' = nextId + clicks
        /\ cursor' = [cursor EXCEPT !["wallet_event_system"] = evCount]
        /\ UNCHANGED <<call, holders, queue, wallet, events, evCount, evDropAt, button,
                       interaction, presses, history>>

\* The loop of wallet_menu_system over the events read, on the wallet and
\* the button.
RECURSIVE MenuEvents(_, _)
MenuEvents(evs, st) ==
    IF evs = <<>> THEN st
    ELSE MenuEvents(Tail(evs),
            CASE evs[1].kind = "Connected" -> [st EXCEPT !.button = "Disconnect"]
              [] evs[1].kind = "DisconnectBtnClick" ->
                    [wallet |-> NoWalletInfo, button |-> "Connect"]
              [] OTHER -> st)

wallet_menu_system ==
    LET st == MenuEvents(Unread("wallet_menu_system"), [wallet |-> wallet, button |-> button])
        disconnects == SelectSeq(Unread("wallet_menu_system"),
                                 LAMBDA e : e.kind = "DisconnectBtnClick")
    IN  /\ Started("wallet_menu_system")
        /\ wallet' = st.wallet
        /\ button' = st.button
        /\ cursor' = [cursor EXCEPT !["wallet_menu_system"] = evCount]
        /\ history' = IF disconnects = <<>> THEN history
                      ELSE [history EXCEPT !.cut = nextId]
        /\ UNCHANGED <<call, holders, queue, events, evCount, evDropAt, interaction, tasks,
                       nextId, presses>>

\* The polling step: pops one event, and acts on a completed connection.
\* What the polling step did with the event it took, kept for the record.
Consume(h, event, emitted) ==
    [h EXCEPT !.consumed = Append(@, [id |-> event.id, ok |-> event.result.ok,
                                      emitted |-> emitted])]

\* A handling of the completion that forgets the wallet on a failure.
on_connection_completed_forgetful(result, info) ==
    IF result.ok
    THEN [info |-> WalletInfo(result.address), send |-> <<"Connected">>]
    ELSE [info |-> NoWalletInfo, send |-> <<>>]

\* match result { Ok(address) => .., Err(err) => .. }: the wallet's info
\* after it, and the events sent.
on_connection_completed(result, info) ==
    IF result.ok
    THEN [info |-> WalletInfo(result.address), send |-> <<"Connected">>]
    ELSE [info |-> info, send |-> <<>>]

async_wallet_event_system ==
    LET popped == AsyncWalletEventQueue_pop(queue)
        event == popped.event.v
        did == on_connection_completed(event.result, wallet)
    IN  /\ Started("async_wallet_event_system")
        /\ get_rw_lock(holders, "async_wallet_event_system").granted
        /\ queue' = popped.queue
        /\ IF popped.event.some
           THEN /\ wallet' = did.info
                /\ IF did.send = <<>>
                   THEN /\ history' = Consume(history, event, "none")
                        /\ UNCHANGED <<events, evCount>>
                   ELSE /\ events' = EventsSend(events, evCount, did.send[1])
                        /\ evCount' = evCount + 1
                        /\ history' = Consume(history, event, did.send[1])
           ELSE UNCHANGED <<wallet, events, evCount, history>>
        /\ UNCHANGED <<call, holders, evDropAt, cursor, button, interaction, tasks, nextId, presses>>

\* A spawned task: connect_to_phantom settles, between two frames, and its
\* result is pushed.
ConnectionCompleted(id, result) ==
    /\ ran = Systems
    /\ id \in tasks
    /\ get_rw_lock(holders, "task").granted
    /\ tasks' = tasks \ {id}
    /\ queue' = AsyncWalletEventQueue_push(queue, [id |-> id, result |-> result])
    /\ history' = [history EXCEPT !.pushed = Append(@, id)]
    /\ UNCHANGED <<call, holders, wallet, events, evCount, evDropAt, cursor, button, interaction,
                   ran, nextId, presses>>

TaskCompletes == \E id \in tasks, result \in ConnectResults : ConnectionCompleted(id, result)

BridgeNext ==
    \/ BeginFrame
    \/ wallet_menu_interaction_system
    \/ wallet_event_system
    \/ wallet_menu_system
    \/ async_wallet_event_system
    \/ TaskCompletes

BridgeSpec == Init /\ [][BridgeNext]_vars

\* The same frame loop, over a session long enough to connect, disconnect
\* and see what a connect started earlier then does.
SessionFrame == Frame(MaxSessionPresses)

SessionNext ==
    \/ SessionFrame
    \/ wallet_menu_interaction_system
    \/ wallet_event_system
    \/ wallet_menu_system
    \/ async_wallet_event_system
    \/ TaskCompletes

SessionSpec == Init /\ [][SessionNext]_vars

\* The frame loop keeps running, and the host wallet settles every connect.
FairBridgeSpec ==
    /\ BridgeSpec
    /\ WF_vars(BeginFrame)
    /\ WF_vars(wallet_menu_interaction_system)
    /\ WF_vars(wallet_event_system)
    /\ WF_vars(wallet_menu_system)
    /\ WF_vars(async_wallet_event_system)
    /\ \A id \in 0..(MaxPresses - 1) :
          SF_vars(\E result \in ConnectResults : ConnectionCompleted(id, result))

----------------------------------------------------------------------------
(* The queue's three accesses step by step: the guard is taken, the Vec is *)
(* touched, the guard is dropped at the return.  The callers run in any    *)
(* order, as threads would.                                                *)

\* The events the queue may hold in these runs.
MaxQueued == 3

\* The callers of push, and the callers of pop and of clear
Producers == {"task0", "task1"}
Accessors == Producers \cup {"async_wallet_event_system", "clear"}

lockIdle == <<call, wallet, events, evCount, evDropAt, cursor, button, interaction,
              ran, tasks, nextId, presses, history>>

\* let mut wallet_event_queue = Self::get_rw_lock()?;
Locks(who) ==
    /\ who \notin holders
    /\ who \in Producers => Len(queue) < MaxQueued
    /\ get_rw_lock(holders, who).granted
    /\ holders' = get_rw_lock(holders, who).holders
    /\ UNCHANGED <<queue, lockIdle>>

\* wallet_event_queue.push(event); Ok(())
PushInside(who) ==
    /\ who \in Producers \cap holders
    /\ \E result \in ConnectResults :
          queue' = AsyncWalletEventQueue_push(queue, [id |-> Len(queue), result |-> result])
    /\ holders' = holders \ {who}
    /\ UNCHANGED lockIdle

\* Ok(wallet_event_queue.pop())
PopInside ==
    /\ "async_wallet_event_system" \in holders
    /\ queue' = AsyncWalletEventQueue_pop(queue).queue
    /\ holders' = holders \ {"async_wallet_event_system"}
    /\ UNCHANGED lockIdle

\* wallet_event_queue.clear(); Ok(())
ClearInside ==
    /\ "clear" \in holders
    /\ queue' = AsyncWalletEventQueue_clear(queue)
    /\ holders' = holders \ {"clear"}
    /\ UNCHANGED lockIdle

LockNext ==
    \/ \E who \in Accessors : Locks(who)
    \/ \E who \in Producers : PushInside(who)
    \/ PopInside
    \/ ClearInside

LockSpec == Init /\ [][LockNext]_vars

Next == RpcNext \/ BridgeNext

Spec == Init /\ [][Next]_vars

----------------------------------------------------------------------------
(* Properties of the RPC client *)

Done(op) == call.stage = "done" /\ call.op = op

\* A call has ended with the transport having delivered a JSON body.
Answered == call.stage = "done" /\ call.reply.t = "text" /\ call.reply.body.t # "garbage"

\* A member of the response body: by key in an object, by position in an
\* array of the four members, Absent otherwise.
Member(body, name) ==
    IF body.t = "obj" THEN (IF name \in DOMAIN body.v THEN body.v[name] ELSE Absent)
    ELSE IF body.t = "arr" /\ Len(body.v) = 4
         THEN body.v[CASE name = "jsonrpc" -> 1 [] name = "result" -> 2
                       [] name = "error" -> 3 [] OTHER -> 4]
    ELSE Absent

IsNull(j) == j.t \in {"absent", "null"}

\* rpc_post failed with the protocol error that carries the body's error.
FailsWithErrorOf(body) ==
    /\ call.post.kind = "Err"
    /\ call.post.cause = "rpc error"
    /\ call.post.ctx = <<>>
    /\ call.post.detail.t = Member(body, "error").t
    /\ call.post.detail = Member(body, "error")

\* The body reads as an RpcResponse of the type the operation expects.
Deserializes == from_str(ResultType(call.op), call.reply.body).ok

\* C1 (as claimed): whenever the sendTransaction post succeeds, send_transaction
\* returns exactly the identifier string the node echoed in the result.
C1_ReturnsEchoedId ==
    (Done("send_transaction") /\ call.post.kind = "Ok")
        => (call.outcome.kind = "Ok" /\ call.outcome.val = call.post.val)

\* C2 (as claimed): every response body whose error member is not null makes
\* rpc_post fail with the protocol error carrying that error value, whatever
\* the result member holds.
C2_ErrorAlwaysProtocolError ==
    (Answered /\ ~IsNull(Member(call.reply.body, "error")))
        => FailsWithErrorOf(call.reply.body)

\* C2 (amended): every response body that deserializes as a response envelope
\* of the expected result type and whose error member is not null makes
\* rpc_post fail with the protocol error carrying that error value, also when
\* the result member is not null.
C2_ErrorTakesPrecedence ==
    (Answered /\ Deserializes /\ ~IsNull(Member(call.reply.body, "error")))
        => FailsWithErrorOf(call.reply.body)

\* C2's case: a body carrying an error and a well-typed result was answered
\* with the protocol error.
C2_Witness ==
    /\ Answered
    /\ Deserializes
    /\ ~IsNull(Member(call.reply.body, "error"))
    /\ ~IsNull(Member(call.reply.body, "result"))
    /\ call.post.cause = "rpc error"

\* The wire account record rpc_post handed to get_account, if it handed one.
WireRecord == call.post.val[1].v

GotWireRecord == Done("get_account") /\ call.post.kind = "Ok" /\ call.post.val[1].some

\* C3 (as claimed): a wire account record whose base64 data or owner text is
\* invalid makes get_account return an error value to its caller: it yields
\* no account and fails in no other way.
C3_DecodeFailureReturned ==
    (/\ GotWireRecord
     /\ \/ ~Base64Decode(WireRecord[1][1]).ok
        \/ ~Pubkey_from_str(WireRecord[4]).ok)
        => call.outcome.kind = "Err"

\* The parameters the wire protocol lists for each method.
ListedParams(op, arg) ==
    CASE op = "get_balance" -> JArr(<<JStr(Bs58Encode(arg))>>)
      [] op \in {"get_account", "get_program_accounts"} ->
            JArr(<<JStr(Bs58Encode(arg)), JObj([encoding |-> JStr(TextBase64)])>>)
      [] op \in {"get_latest_blockhash", "sign_tx"} ->
            JArr(<<JObj([commitment |-> JStr(TextFinalized)])>>)
      [] op = "send_transaction" -> JArr(<<JStr(Bs58Encode(arg))>>)

\* C8 (as claimed): every request envelope a facade operation builds has
\* jsonrpc "2.0" and, as params, the JSON array listed for its method.
C8_RequestShape ==
    call.stage # "idle"
        => /\ call.request.jsonrpc = JStr(Str20)
           /\ call.request.params.t = "arr"
           /\ call.request.params = ListedParams(call.op, call.arg)

\* The result member is the object {value: null}.
ValueIsNull(result) ==
    result.t = "obj" /\ "value" \in DOMAIN result.v /\ result.v["value"].t = "null"

\* C9: a getAccountInfo response that is a well-formed envelope with result
\* {value: null} makes get_account fail with "could not find account"; and
\* that failure is no other one: it is returned only when the envelope was
\* read, carried no error and held a result with no account.
C9_AccountNotFound ==
    Done("get_account")
        => /\ (/\ Answered /\ Deserializes
               /\ IsNull(Member(call.reply.body, "error"))
               /\ ValueIsNull(Member(call.reply.body, "result")))
                  => /\ call.outcome.kind = "Err"
                     /\ call.outcome.cause = "could not find account"
           /\ call.outcome.cause = "could not find account"
                  => /\ call.outcome.kind = "Err"
                     /\ call.outcome.ctx = <<>>
                     /\ call.post.kind = "Ok"
                     /\ ~call.post.val[1].some

C9_Witness ==
    /\ Done("get_account")
    /\ Answered
    /\ ValueIsNull(Member(call.reply.body, "result"))
    /\ call.outcome.cause = "could not find account"

\* C10: a response envelope whose result and error are both absent or null
\* makes rpc_post fail, with "no result" when the envelope is otherwise well
\* formed, and never yields a value; an envelope of the expected type whose
\* error is absent or null and whose result is present yields the result.
C10_NoResultOrResult ==
    (Answered /\ IsNull(Member(call.reply.body, "error")))
        => /\ IsNull(Member(call.reply.body, "result"))
                => /\ call.post.kind = "Err"
                   /\ call.post.cause \in {"no result", "json data"}
                   /\ Deserializes => call.post.cause = "no result"
           /\ (Deserializes /\ ~IsNull(Member(call.reply.body, "result")))
                => /\ call.post.kind = "Ok"
                   /\ call.post.val = De(ResultType(call.op),
                                         Member(call.reply.body, "result")).v

C10_Witness ==
    /\ Answered
    /\ IsNull(Member(call.reply.body, "error"))
    /\ IsNull(Member(call.reply.body, "result"))
    /\ call.post.kind = "Err"
    /\ call.post.cause = "no result"

----------------------------------------------------------------------------
(* Properties of the bridge *)

\* Where attempt id stands in a sequence of ids, 0 if it does not.
PositionIn(ids, id) ==
    IF \E k \in 1..Len(ids) : ids[k] = id
    THEN CHOOSE k \in 1..Len(ids) : ids[k] = id
    ELSE 0

ConsumedIds == [k \in 1..Len(history.consumed) |-> history.consumed[k].id]

QueuedIds == [k \in 1..Len(queue) |-> queue[k].id]

Occurrences(ids, id) == Cardinality({k \in 1..Len(ids) : ids[k] = id})

\* C4 (as claimed): events are drained in the order produced: when the
\* polling step has consumed an event, it has consumed every event pushed
\* before it earlier.
C4_DrainedInOrderProduced ==
    \A k \in 1..Len(ConsumedIds) :
        \A p \in 1..(PositionIn(history.pushed, ConsumedIds[k]) - 1) :
            LET at == PositionIn(ConsumedIds, history.pushed[p])
            IN  at # 0 /\ at < k

\* The polling step has just consumed a connect attempt that failed.
ConsumesFailure ==
    /\ Len(history'.consumed) = Len(history.consumed) + 1
    /\ ~history'.consumed[Len(history'.consumed)].ok

\* C5 (as claimed): the polling step forwards a failed connect attempt as an
\* observable transition: an event is sent, or the wallet or the button
\* changes.
C5_FailureObservable ==
    [][ConsumesFailure => (evCount' # evCount \/ wallet' # wallet \/ button' # button)]_vars

\* C6: every event pushed is in the queue or has been delivered to the
\* polling step, and exactly one of the two, once.
C6_PushedOncePoppedOnce ==
    \A id \in 0..nextId :
        /\ Occurrences(history.pushed, id) <= 1
        /\ Occurrences(QueuedIds, id) + Occurrences(ConsumedIds, id)
              = Occurrences(history.pushed, id)

C6_Witness ==
    /\ Len(history.pushed) >= 2
    /\ Len(queue) >= 1
    /\ Len(history.consumed) >= 1

\* Attempt id has been consumed with a Connected or a Failed outcome.
Resolved(id) ==
    \E k \in 1..Len(history.consumed) :
        /\ history.consumed[k].id = id
        /\ history.consumed[k].emitted \in {"Connected", "Failed"}

\* C7 (as claimed): every connect attempt launched eventually resolves to a
\* Connected or a Failed outcome.
C7_AttemptResolves ==
    \A id \in 0..(MaxPresses - 1) : (id \in tasks) ~> Resolved(id)

----------------------------------------------------------------------------
(* Properties of the facade operations *)

\* The blockhash text the response carries, once rpc_post has read it.
BlockhashText == call.post.val[1][1]

\* sign_tx ended as the blockhash fetch did when that failed, and with the
\* transaction signed on the fetched blockhash when it did not.
SignedOn(fetched) ==
    IF fetched.kind # "Ok"
    THEN /\ call.outcome.kind = fetched.kind
         /\ call.outcome.cause = fetched.cause
         /\ call.outcome.ctx = fetched.ctx
    ELSE call.arg.kp = "signer"
            => /\ call.outcome.kind = "Ok"
               /\ call.outcome.val.message = call.arg.tx
               /\ call.outcome.val.recent_blockhash = fetched.val
               /\ Bs58Encode(call.outcome.val.recent_blockhash) = BlockhashText

\* C11: sign_tx sends one getLatestBlockhash request with "finalized"
\* commitment; it signs the transaction with exactly the blockhash the
\* response carries, and when the fetch fails it returns that failure and no
\* signed transaction.
C11_SignsOnFetchedBlockhash ==
    Done("sign_tx")
        => /\ call.sent = <<RpcRequest_new("getLatestBlockhash",
                              JArr(<<JObj([commitment |-> JStr(TextFinalized)])>>))>>
           /\ SignedOn(get_latest_blockhash(call.impl, call.reply))
           /\ call.outcome.kind = "Ok" => call.post.kind = "Ok"

C11_Witness ==
    /\ Done("sign_tx")
    /\ call.outcome.kind = "Ok"
    /\ call.outcome.val.recent_blockhash = Bs58Decode(VinesText).bytes

\* The blockhash text decodes, and to 32 bytes.
DecodesTo32(text) == Bs58Decode(text).ok /\ Len(Bs58Decode(text).bytes) = 32

\* C12: get_latest_blockhash succeeds only when the blockhash text of the
\* response decodes to exactly 32 bytes, and then yields exactly those bytes;
\* a text that does not decode, or decodes to another length, makes it fail
\* with an error: nothing is padded or cut.
C12_BlockhashExactly32 ==
    Done("get_latest_blockhash")
        => /\ call.outcome.kind = "Ok"
                => /\ call.post.kind = "Ok"
                   /\ Len(call.outcome.val) = 32
                   /\ Bs58Encode(call.outcome.val) = BlockhashText
           /\ call.post.kind = "Ok"
                => IF DecodesTo32(BlockhashText)
                   THEN /\ call.outcome.kind = "Ok"
                        /\ call.outcome.val = Bs58Decode(BlockhashText).bytes
                   ELSE call.outcome.kind = "Err"

C12_Witness ==
    /\ Done("get_latest_blockhash")
    /\ call.outcome.kind = "Ok"
    /\ BlockhashText = VinesText
    /\ Len(call.outcome.val) = 32

\* C13: no operation retries. A call sends its one request to the transport
\* and no other: when the call has ended, with a value or with the failure
\* of the send, of the envelope check or of the decode, that request is all
\* that was sent.
C13_OneSendPerCall ==
    call.stage # "idle"
        => /\ Len(call.sent) = 1
           /\ call.sent[1] = call.request

\* A call that failed at the decode has ended, one request sent.
C13_Witness ==
    /\ Done("get_latest_blockhash")
    /\ call.post.kind = "Ok"
    /\ call.outcome.kind = "Err"
    /\ Len(call.sent) = 1

\* The body has the version and id members of a response.
WellFormedHead(body) ==
    /\ Member(body, "jsonrpc").t = "str"
    /\ Member(body, "id").t = "num"
    /\ Member(body, "id").v >= 0

\* The two shapes of a program-account list: (account, pubkey) tuples, and
\* {account, pubkey} objects.
IsTupleList(result) ==
    /\ result.t = "arr"
    /\ \A i \in 1..Len(result.v) : result.v[i].t = "arr" /\ Len(result.v[i].v) = 2

IsObjectList(result) ==
    /\ result.t = "arr"
    /\ \A i \in 1..Len(result.v) :
          result.v[i].t = "obj" /\ {"account", "pubkey"} \subseteq DOMAIN result.v[i].v

\* C14 (as claimed): get_program_accounts decodes a result in either shape,
\* the list of tuples or the list of objects, into one pair per element.
C14_EitherShapeDecodes ==
    (/\ Done("get_program_accounts") /\ Answered
     /\ WellFormedHead(call.reply.body)
     /\ IsNull(Member(call.reply.body, "error"))
     /\ \/ IsTupleList(Member(call.reply.body, "result"))
        \/ IsObjectList(Member(call.reply.body, "result")))
        => /\ call.outcome.kind = "Ok"
           /\ Len(call.outcome.val) = Len(Member(call.reply.body, "result").v)

----------------------------------------------------------------------------
(* Properties of the bridge's polling step and of the connect flow *)

\* C15: a connect attempt that completed with an error leaves the wallet as
\* it was: the polling step that consumes it keeps Wallet.info, absent or
\* connected, and sends no event.
C15_FailureLeavesWallet ==
    [][ConsumesFailure => (wallet' = wallet /\ evCount' = evCount /\ events' = events)]_vars

\* A failed attempt was consumed after one that connected, whose address the
\* wallet still holds.
C15_Witness ==
    /\ Len(history.consumed) = 2
    /\ history.consumed[1].ok
    /\ ~history.consumed[2].ok
    /\ wallet.some

\* The step is one of the polling system.
Polls == "async_wallet_event_system" \notin ran /\ "async_wallet_event_system" \in ran'

\* C16: with the event of one attempt that resolved to address A alone in
\* the queue, the polling step sets the wallet's address to A and sends
\* exactly one Connected event; a polling step that finds the queue empty
\* sends nothing and leaves the wallet as it is.
C16_OneConnectedPerAttempt ==
    [][Polls =>
         /\ (Len(queue) = 1 /\ queue[1].result.ok)
                => /\ wallet' = WalletInfo(queue[1].result.address)
                   /\ events' = Append(events, [id |-> evCount, kind |-> "Connected"])
                   /\ evCount' = evCount + 1
                   /\ queue' = <<>>
         /\ queue = <<>>
                => /\ wallet' = wallet
                   /\ events' = events
                   /\ evCount' = evCount
                   /\ queue' = <<>>]_vars

\* One attempt resolved and was consumed: the wallet is connected, and one
\* Connected event was sent.
C16_Witness ==
    /\ Len(history.consumed) = 1
    /\ history.consumed[1].emitted = "Connected"
    /\ wallet.some
    /\ queue = <<>>
    /\ Len(SelectSeq(events, LAMBDA e : e.kind = "Connected")) = 1
    /\ "async_wallet_event_system" \in ran

----------------------------------------------------------------------------
(* Properties of the result's shape and of the two clients *)

\* The operations whose result is a {value: T} wrapper.
WrapperOps == {"get_balance", "get_account", "get_latest_blockhash"}

\* The result is an object with no value member.
LacksValue(result) == result.t = "obj" /\ "value" \notin DOMAIN result.v

\* The call failed at the decode of the response.
FailsToDecode == call.outcome.kind = "Err" /\ call.outcome.cause = "json data"

\* C17 (as claimed): get_balance, get_account and get_latest_blockhash read
\* the result as a {value: T} wrapper: a getBalance result {value: N} returns
\* N, and a result with no value member fails to decode; send_transaction and
\* get_program_accounts read the result as the payload itself.
C17_ValueWrapper ==
    (/\ Answered /\ WellFormedHead(call.reply.body)
     /\ IsNull(Member(call.reply.body, "error")))
        => /\ (call.op \in WrapperOps /\ LacksValue(Member(call.reply.body, "result")))
                => FailsToDecode
           /\ (/\ call.op = "get_balance"
               /\ Member(call.reply.body, "result").t = "obj"
               /\ ~LacksValue(Member(call.reply.body, "result"))
               /\ Member(call.reply.body, "result").v["value"].t = "num"
               /\ Member(call.reply.body, "result").v["value"].v >= 0)
                => /\ call.outcome.kind = "Ok"
                   /\ call.outcome.val = Member(call.reply.body, "result").v["value"].v
           /\ (call.op = "send_transaction" /\ Member(call.reply.body, "result").t = "str")
                => call.post.kind = "Ok" /\ call.post.val = Member(call.reply.body, "result").v
           /\ (call.op \in {"send_transaction", "get_program_accounts"}
                 /\ Member(call.reply.body, "result").t = "obj")
                => FailsToDecode

\* Two outcomes are the same value, or the same failure.
SameOutcome(a, b) ==
    /\ a.kind = b.kind
    /\ a.cause = b.cause
    /\ a.ctx = b.ctx
    /\ a.kind = "Ok" => a.val = b.val
    /\ a.kind = "Err" => (a.detail.t = b.detail.t /\ a.detail = b.detail)

OtherImpl(impl) == IF impl = "local" THEN "standalone" ELSE "local"

\* C18: the clients are interchangeable: whatever the operation and whatever
\* the transport gave back, the call ends as the same call of the other
\* client would have, having sent the request the operation alone fixes.
C18_Interchangeable ==
    call.stage = "done"
        => /\ call.sent = <<Request(call.op, call.arg)>>
           /\ SameOutcome(call.outcome,
                          Facade(OtherImpl(call.impl), call.op, call.arg, call.reply))
           /\ SameOutcome(call.post,
                          rpc_post(OtherImpl(call.impl), ResultType(call.op), call.reply))

C18_Witness ==
    /\ Done("get_program_accounts")
    /\ call.impl = "standalone"
    /\ call.outcome.kind = "Ok"
    /\ Len(call.outcome.val) = 2

----------------------------------------------------------------------------
(* Properties of the queue's lock and of the connect flow *)

\* C19: the buffer is touched under mutual exclusion: push, pop and clear
\* hold the write guard for the whole access, so at no time are two
\* accessors, a producer and the polling step among them, inside the buffer.
C19_MutualExclusion ==
    /\ Cardinality(holders) <= 1
    /\ ~(holders \cap Producers # {} /\ "async_wallet_event_system" \in holders)

\* A producer is inside the buffer while events wait for the polling step.
C19_Witness ==
    /\ holders = {"task0"}
    /\ Len(queue) >= 1

\* The connect attempts in flight: launched, and their completion not yet
\* consumed by the polling step.
InFlight == tasks \cup {queue[k].id : k \in 1..Len(queue)}

\* C20 (as claimed): a connect trigger launches an attempt only when none is
\* unresolved, so at most one connect attempt is in flight at any time.
C20_OneAttemptInFlight == Cardinality(InFlight) <= 1

----------------------------------------------------------------------------
(* Properties of a session that disconnects, and of the polling step *)

\* A disconnect has been processed, and no connect click has been processed
\* since: every attempt there is was started before the disconnect.
DisconnectedSince == history.cut = nextId

\* C21 (as claimed): once a DisconnectBtnClick has been processed the wallet
\* stays absent until a later ConnectBtnClick has been processed: no
\* completion of an attempt started before the disconnect reconnects it.
C21_StaysDisconnected == DisconnectedSince => ~wallet.some

\* No WalletEvent waits for a reader, and no completion waits in the queue.
Quiet ==
    /\ \A system \in DOMAIN cursor : cursor[system] = evCount
    /\ queue = <<>>

\* C22 (as claimed): whenever no WalletEvent is pending and the queue is
\* empty, the button reads Disconnect exactly when the wallet's info is
\* present, and Connect exactly when it is absent.
C22_ButtonFollowsWallet == Quiet => (button = "Disconnect" <=> wallet.some)

\* r is q with exactly one of its elements taken out.
OneRemoved(q, r) ==
    \E k \in 1..Len(q) : r = SubSeq(q, 1, k - 1) \o SubSeq(q, k + 1, Len(q))

\* C23: a run of the polling step takes exactly one event out of a queue
\* that holds any, the others staying queued, and sends at most one event,
\* a Connected; no other step takes an event out.  So k queued completions
\* take k frames to drain.
C23_OnePerFrame ==
    [][/\ Polls =>
            /\ IF queue = <<>> THEN queue' = <<>> ELSE OneRemoved(queue, queue')
            /\ \/ events' = events /\ evCount' = evCount
               \/ /\ queue # <<>>
                  /\ events' = Append(events, [id |-> evCount, kind |-> "Connected"])
                  /\ evCount' = evCount + 1
       /\ ~Polls =>
            /\ Len(queue') >= Len(queue)
            /\ SubSeq(queue', 1, Len(queue)) = queue]_vars

\* Two completions were queued when the frame began; the polling step has
\* run in it, and one of them is still queued.
C23_Witness ==
    /\ "async_wallet_event_system" \in ran
    /\ ran # Systems
    /\ Len(history.pushed) = 2
    /\ Len(history.consumed) = 1
    /\ Len(queue) = 1

=============================================================================
